---- MODULE Spec2Model ----
(***************************************************************************)
(* Model of the Timetrakt toolbar companion (src/background.js and         *)
(* src/popup.js): the background process BadgeTicker with its two interval *)
(* timers, the cached timer state and clock offset, the toolbar badge, the *)
(* popup view and its message port, and the GET/POST requests in flight.   *)
(*                                                                         *)
(* Time values (Date.now()/1000, the server's 'now' and 'started_at') are  *)
(* fixed-point numbers counted in units of 1/TimeUnitsPerSecond second, so *)
(* that Math.round has something to round.  Nullable values are sequences  *)
(* of length at most one: <<>> is null and <<v>> is the value v.           *)
(***************************************************************************)
EXTENDS Integers, Sequences, FiniteSets, TLC

\* ------------------------------------------------------------------ bounds
TimeUnitsPerSecond == 2     \* resolution of time values
MaxTime == 120              \* seconds of uptime explored
MaxMsgs == 3                \* messages the popup sends in one behaviour
MaxLatency == 2             \* seconds a request stays in flight at most
MaxFaceSeconds == 130       \* run times 0 .. MaxFaceSeconds of the clock face

\* What the environment does in one behaviour: the longer the run, the fewer
\* messages the popup sends in it.  The long run covers two firings of the
\* 60 s interval, the middle one a user action around the first firing, the
\* short one several user actions within a second.
Scenarios ==
    { [ uptime |-> MaxTime,                msgs |-> 1 ],
      [ uptime |-> (MaxTime \div 2) + 1,   msgs |-> 2 ],
      [ uptime |-> 1,                      msgs |-> MaxMsgs ] }

\* --------------------------------------------------------- program constants
FULL_UPDATE_INTERVAL_MINS == 1

\* the interval with the factor 60 left out: a period counted in seconds
FullUpdateIntervalSecsNoSixty == (1000 * FULL_UPDATE_INTERVAL_MINS) \div 1000

\* setInterval(..., 1000 * 60 * FULL_UPDATE_INTERVAL_MINS), in seconds
FullUpdateIntervalSecs == (1000 * 60 * FULL_UPDATE_INTERVAL_MINS) \div 1000

\* setInterval(..., 1000), in seconds
UiUpdateIntervalSecs == 1000 \div 1000

BADGE_COLOR == "#d352ad"
ERROR_COLOR == "#e74c3c"

VARIABLES
    clock,          \* Date.now()/1000 of the local machine, in time units
    uptime,         \* whole seconds since BadgeTicker.init()
    fullDue,        \* uptime at which the 60 s interval fires next
    uiDue,          \* uptime at which the 1 s interval fires next
    timerState,     \* BadgeTicker.timerState
    timeOffset,     \* BadgeTicker.timeOffset, in time units
    badgeSecondUpdatesEnabled,
    badge,          \* what chrome.browserAction currently shows
    popup,          \* the popup view's document (chrome.extension.getViews)
    port,           \* messages posted by the popup, not yet received
    pendingGets,    \* GET /v1/timer requests in flight
    pendingPosts,   \* POST /v1/timer requests in flight, with their bodies
    \* history of the run
    numGets,        \* GETs issued so far
    numPosts,       \* POSTs issued so far
    numFullTicks,   \* firings of the 60 s interval
    uiTicksSinceFull, \* firings of the 1 s interval since the last 60 s firing
    numActionMsgs,  \* "start"/"save"/"delete" messages received
    msgsSent,       \* messages posted by the popup
    lastOk,         \* the last successful response handled, with its time
    lastFull,       \* outcome of the full refresh that completed last
    lastOp,         \* what the last step did
    limits,         \* the scenario of this behaviour
    server          \* the timer state the server holds, Null: left open

vars == << clock, uptime, fullDue, uiDue, timerState, timeOffset,
           badgeSecondUpdatesEnabled, badge, popup, port, pendingGets,
           pendingPosts, numGets, numPosts, numFullTicks, uiTicksSinceFull,
           numActionMsgs, msgsSent, lastOk, lastFull, lastOp, limits,
           server >>

\* ------------------------------------------------------------ JS helpers
Null == << >>

\* ToNumber of a nullable number: null converts to 0
ToNumber(v) == IF v = Null THEN 0 ELSE v[1]

\* Math.round of a value in time units, giving whole seconds (half rounds up)
MathRound(x) == (2 * x + TimeUnitsPerSecond) \div (2 * TimeUnitsPerSecond)

\* Math.floor(a / b) for whole numbers
MathFloorDiv(a, b) == a \div b

Digits == << "0", "1", "2", "3", "4", "5", "6", "7", "8", "9" >>

RECURSIVE NumberToString(_)
\* Number.prototype.toString for whole numbers
NumberToString(n) ==
    IF n < 0 THEN "-" \o NumberToString(-n)
    ELSE IF n < 10 THEN Digits[n + 1]
    ELSE NumberToString(n \div 10) \o Digits[(n % 10) + 1]

\* Object.assign({ }, a, b): the keys of both, b's values winning
ObjectAssign(a, b) ==
    [k \in (DOMAIN a) \cup (DOMAIN b) |-> IF k \in DOMAIN b THEN b[k] ELSE a[k]]

\* ------------------------------------------------- BadgeTicker, pure parts

\* the run time computed without the server offset correction
totalSecondsActiveNoOffset(ts, off, clk) ==
    MathRound(clk - ToNumber(ts.started_at))

\* let totalSecondsActive = Math.round(nowUnix - thenUnix)
totalSecondsActive(ts, off, clk) ==
    MathRound((clk + off) - ToNumber(ts.started_at))

\* the display numbers with the hours not taken out of the minutes
ClockFacePartsTotalMinutes(T) ==
    LET totalMinutes   == MathFloorDiv(T, 60)
        totalHours     == MathFloorDiv(totalMinutes, 60)
        displayHours   == totalHours
        displayMinutes == totalMinutes
        displaySeconds ==
            MathRound((T - (totalMinutes * 60)) * TimeUnitsPerSecond)
    IN  [ hours |-> displayHours, minutes |-> displayMinutes,
          seconds |-> displaySeconds ]

\* displayHours, displayMinutes and displaySeconds of a run time of T seconds
ClockFaceParts(T) ==
    LET totalMinutes   == MathFloorDiv(T, 60)
        totalHours     == MathFloorDiv(totalMinutes, 60)
        displayHours   == totalHours
        displayMinutes == totalMinutes - (totalHours * 60)
        displaySeconds ==
            MathRound((T - (((totalHours * 60) + displayMinutes) * 60))
                      * TimeUnitsPerSecond)
    IN  [ hours |-> displayHours, minutes |-> displayMinutes,
          seconds |-> displaySeconds ]

\* if (s.length === 1) { s = `0${s}`; }
PadOneDigit(s) == IF Len(s) = 1 THEN "0" \o s ELSE s

\* the two strings built from the three display numbers
ClockFaceText(T) ==
    LET parts            == ClockFaceParts(T)
        displayHours     == NumberToString(parts.hours)
        displayMinutes   == PadOneDigit(NumberToString(parts.minutes))
        displaySeconds   == PadOneDigit(NumberToString(parts.seconds))
        strHoursMins     == displayHours \o ":" \o displayMinutes
        strHoursMinsSecs == strHoursMins \o ":" \o displaySeconds
    IN  [ short |-> strHoursMins, full |-> strHoursMinsSecs ]

\* getTimerClockFaceText().  Its only caller has returned before the call
\* when the timer is not started, so the "" of that branch is never read.
getTimerClockFaceText(ts, off, clk) ==
    IF ~ts.started
    THEN [ short |-> "", full |-> "" ]
    ELSE ClockFaceText(totalSecondsActive(ts, off, clk))

\* the parcel tickUiUpdate and tickFullUpdate start from; textFull is unset
NewUpdateParcel ==
    [ text |-> "", color |-> BADGE_COLOR, tooltip |-> "", textFull |-> "" ]

\* setUpdateObjTexts putting the full clock face on the badge
setUpdateObjTextsFullOnBadge(updateParcel, ts, off, clk) ==
    IF ~ts.started
    THEN [ updateParcel EXCEPT !.text = "", !.tooltip = "Stopped" ]
    ELSE
        LET tooltip1  == IF ts.active_task # Null
                         THEN ts.active_task[1].name
                         ELSE "No active task"
            clockText == getTimerClockFaceText(ts, off, clk)
            tooltip2  == IF tooltip1 # "" THEN tooltip1 \o "\r\n" ELSE tooltip1
        IN  [ updateParcel EXCEPT !.text     = clockText.full,
                                  !.textFull = clockText.full,
                                  !.tooltip  = tooltip2 \o clockText.full ]

\* setUpdateObjTexts(updateParcel)
setUpdateObjTexts(updateParcel, ts, off, clk) ==
    IF ~ts.started
    THEN [ updateParcel EXCEPT !.text = "", !.tooltip = "Stopped" ]
    ELSE
        LET tooltip1  == IF ts.active_task # Null
                         THEN ts.active_task[1].name
                         ELSE "No active task"
            clockText == getTimerClockFaceText(ts, off, clk)
            tooltip2  == IF tooltip1 # "" THEN tooltip1 \o "\r\n" ELSE tooltip1
        IN  [ updateParcel EXCEPT !.text     = clockText.short,
                                  !.textFull = clockText.full,
                                  !.tooltip  = tooltip2 \o clockText.full ]

\* the parcel of the catch branch of tickFullUpdate
ErrorParcel ==
    [ NewUpdateParcel EXCEPT !.text = "!", !.color = ERROR_COLOR,
                             !.tooltip = "Communication error" ]

\* applyBadgeConfig(updateParcel): the badge the three chrome calls leave
applyBadgeConfig(updateParcel) ==
    [ text  |-> updateParcel.text,
      color |-> IF updateParcel.color # "" THEN updateParcel.color
                ELSE BADGE_COLOR,
      title |-> IF updateParcel.tooltip # ""
                THEN "Timetrakt - " \o updateParcel.tooltip
                ELSE "Timetrakt" ]

\* the badge before this program has written it
UnsetBadge == [ text |-> "", color |-> "", title |-> "" ]

\* the popup's document: no view, and a view no update has touched yet
\* (display "" is an element without an inline style)
NoPopup ==
    [ open |-> FALSE, face |-> "", task |-> "", project |-> "",
      btnStart |-> "", btnSave |-> "", btnDelete |-> "" ]

FreshPopup == [ NoPopup EXCEPT !.open = TRUE ]

\* updatePopupUi leaving the Save button alone when there is no active task
updatePopupUiSaveWithoutTask(updateParcel, ts, doc) ==
    IF ~doc.open THEN doc
    ELSE
        LET d1 == IF ts.started
                  THEN [ doc EXCEPT !.face      = updateParcel.textFull,
                                    !.btnSave   = "flex",
                                    !.btnDelete = "flex",
                                    !.btnStart  = "none" ]
                  ELSE [ doc EXCEPT !.face      = "Stopped",
                                    !.btnSave   = "none",
                                    !.btnDelete = "none",
                                    !.btnStart  = "flex" ]
        IN  IF ts.active_task # Null
            THEN [ d1 EXCEPT !.task    = ts.active_task[1].name,
                             !.project = ts.active_task[1].project.name ]
            ELSE [ d1 EXCEPT !.task = "", !.project = "" ]

\* updatePopupUi(updateParcel): the document of every popup view afterwards
updatePopupUi(updateParcel, ts, doc) ==
    IF ~doc.open THEN doc
    ELSE
        LET d1 == IF ts.started
                  THEN [ doc EXCEPT !.face      = updateParcel.textFull,
                                    !.btnSave   = "flex",
                                    !.btnDelete = "flex",
                                    !.btnStart  = "none" ]
                  ELSE [ doc EXCEPT !.face      = "Stopped",
                                    !.btnSave   = "none",
                                    !.btnDelete = "none",
                                    !.btnStart  = "flex" ]
        IN  IF ts.active_task # Null
            THEN [ d1 EXCEPT !.task    = ts.active_task[1].name,
                             !.project = ts.active_task[1].project.name ]
            ELSE [ d1 EXCEPT !.task = "", !.project = "", !.btnSave = "none" ]

\* tickUiUpdate without the test of badgeSecondUpdatesEnabled
tickUiUpdateUnguarded(ts, off, clk, enabled, bdg, doc) ==
    LET updateParcel == setUpdateObjTexts(NewUpdateParcel, ts, off, clk)
    IN  [ badge |-> applyBadgeConfig(updateParcel),
          popup |-> updatePopupUi(updateParcel, ts, doc) ]

\* tickUiUpdate(): the badge and the popup document it leaves
tickUiUpdate(ts, off, clk, enabled, bdg, doc) ==
    LET updateParcel == setUpdateObjTexts(NewUpdateParcel, ts, off, clk)
    IN  [ badge |-> IF enabled THEN applyBadgeConfig(updateParcel) ELSE bdg,
          popup |-> updatePopupUi(updateParcel, ts, doc) ]

\* handleTimerState with the two clocks of the subtraction swapped
handleTimerStateSwapped(data, clk) ==
    LET ourUnix   == clk
        theirUnix == data.now
    IN  [ timerState |-> data, timeOffset |-> ourUnix - theirUnix ]

\* handleTimerState(timerState): the new cache
handleTimerState(data, clk) ==
    LET ourUnix   == clk
        theirUnix == data.now
    IN  [ timerState |-> data, timeOffset |-> theirUnix - ourUnix ]

\* postTimerStateUpdate with the arguments of Object.assign in the wrong
\* order, the cached state overriding the update
postTimerStateUpdateCacheWins(timerUpdateParcel, ts) ==
    ObjectAssign(timerUpdateParcel, ts)

\* the merged parcel postTimerStateUpdate posts
postTimerStateUpdate(timerUpdateParcel, ts) ==
    ObjectAssign(ts, timerUpdateParcel)

\* ------------------------------------------------------------- the inputs

\* readings of the local clock at init: a whole second and a fractional one
LocalClockBases ==
    { 1000 * TimeUnitsPerSecond, (7000 * TimeUnitsPerSecond) + 1 }

\* the server's 'now' in a response: a whole second and a fractional one
ServerNow     == 5000 * TimeUnitsPerSecond
ServerNowFrac == ServerNow + 1

TaskA      == [ name |-> "Write report", project |-> [ name |-> "Acme" ] ]
TaskNoName == [ name |-> "", project |-> [ name |-> "Acme" ] ]

StoppedState(now, task) ==
    [ started |-> FALSE, started_at |-> Null, active_task |-> task,
      seconds_active |-> Null, now |-> now ]

\* a timer started 'secs' whole seconds before the server time ServerNow
StartedState(now, secs, task) ==
    [ started |-> TRUE,
      started_at |-> << ServerNow - (secs * TimeUnitsPerSecond) >>,
      active_task |-> task, seconds_active |-> << secs >>, now |-> now ]

\* the timer states a response of the server carries
ResponseStates ==
    { StoppedState(ServerNow, Null),
      StoppedState(ServerNowFrac, << TaskA >>),
      StartedState(ServerNow, 3540, << TaskA >>),
      StartedState(ServerNowFrac, 35999, Null),
      StartedState(ServerNowFrac, 58, << TaskNoName >>) }

\* the partial updates of the three user actions
StartUpdate  == [ started |-> TRUE ]
DeleteUpdate == [ started |-> FALSE ]
\* the "save" branch posting the update of the "delete" branch above it
SaveUpdatePasted == [ started |-> FALSE ]
SaveUpdate   == [ finish |-> TRUE ]

\* ---------------------------------------------------------- state machine

NoOp(name) == [ op |-> name, badgeWrite |-> "none", uiUpdates |-> 0 ]

\* the state BadgeTicker.init() leaves: the cache, both intervals set and the
\* immediate full refresh already issued
Booted ==
    /\ clock \in LocalClockBases
    /\ uptime = 0
    /\ fullDue = FullUpdateIntervalSecs
    /\ uiDue = UiUpdateIntervalSecs
    /\ timerState = StoppedState(clock, Null)
    /\ timeOffset = 0
    /\ badgeSecondUpdatesEnabled = FALSE
    /\ badge = UnsetBadge
    /\ popup = NoPopup
    /\ port = << >>
    /\ pendingGets = { [ id |-> 1, sent |-> 0, reply |-> Null ] }
    /\ pendingPosts = { }
    /\ numGets = 1
    /\ numPosts = 0
    /\ numFullTicks = 0
    /\ uiTicksSinceFull = 0
    /\ numActionMsgs = 0
    /\ msgsSent = 0
    /\ lastOk = Null
    /\ lastFull = "none"
    /\ lastOp = NoOp("init")

\* the program after init(), with a server that may answer anything
Init ==
    /\ Booted
    /\ limits \in Scenarios
    /\ server = Null

\* a request in flight that must complete before the clock moves on
Overdue(req) == uptime - req.sent >= MaxLatency

\* one second passes; a timer that is due fires before the clock moves on,
\* a posted message is received within the second, and a request completes
\* within MaxLatency seconds
AdvanceClock ==
    /\ uptime < limits.uptime
    /\ fullDue > uptime
    /\ uiDue > uptime
    /\ port = << >>
    /\ \A req \in pendingGets \cup pendingPosts : ~Overdue(req)
    /\ uptime' = uptime + 1
    /\ clock' = clock + TimeUnitsPerSecond
    /\ lastOp' = NoOp("advance")
    /\ UNCHANGED << limits, server, fullDue, uiDue, timerState, timeOffset,
                    badgeSecondUpdatesEnabled, badge, popup, port,
                    pendingGets, pendingPosts, numGets, numPosts,
                    numFullTicks, uiTicksSinceFull, numActionMsgs, msgsSent,
                    lastOk, lastFull >>

\* the 60 s interval fires: tickFullUpdate() up to the request it issues.
\* It was set before the 1 s interval, so it fires first when both are due.
FullTimerFire ==
    /\ fullDue = uptime
    /\ fullDue' = fullDue + FullUpdateIntervalSecs
    /\ pendingGets' = pendingGets \cup
                          { [ id |-> numGets + 1, sent |-> uptime,
                              reply |-> Null ] }
    /\ numGets' = numGets + 1
    /\ numFullTicks' = numFullTicks + 1
    /\ uiTicksSinceFull' = 0
    /\ lastOp' = NoOp("fullTick")
    /\ UNCHANGED << limits, server, clock, uptime, uiDue, timerState,
                    timeOffset, badgeSecondUpdatesEnabled, badge, popup, port,
                    pendingPosts, numPosts, numActionMsgs, msgsSent, lastOk,
                    lastFull >>

\* the 1 s interval fires: tickUiUpdate()
UiTimerFire ==
    /\ uiDue = uptime
    /\ fullDue # uptime
    /\ uiDue' = uiDue + UiUpdateIntervalSecs
    /\ LET r == tickUiUpdate(timerState, timeOffset, clock,
                             badgeSecondUpdatesEnabled, badge, popup)
       IN  /\ badge' = r.badge
           /\ popup' = r.popup
    /\ uiTicksSinceFull' = uiTicksSinceFull + 1
    /\ lastOp' = [ op |-> "uiTick",
                   badgeWrite |-> IF badgeSecondUpdatesEnabled
                                  THEN "parcel" ELSE "none",
                   uiUpdates |-> 1 ]
    /\ UNCHANGED << limits, server, clock, uptime, fullDue, timerState,
                    timeOffset, badgeSecondUpdatesEnabled, port, pendingGets,
                    pendingPosts, numGets, numPosts, numFullTicks,
                    numActionMsgs, msgsSent, lastOk, lastFull >>

\* ---- popup.js: the view opens, closes, and its buttons post messages

\* the popup page loads: chrome.runtime.connect(); postMessage("hello")
OpenPopup ==
    /\ ~popup.open
    /\ msgsSent < limits.msgs
    /\ popup' = FreshPopup
    /\ port' = Append(port, "hello")
    /\ msgsSent' = msgsSent + 1
    /\ lastOp' = NoOp("open")
    /\ UNCHANGED << limits, server, clock, uptime, fullDue, uiDue, timerState,
                    timeOffset, badgeSecondUpdatesEnabled, badge, pendingGets,
                    pendingPosts, numGets, numPosts, numFullTicks,
                    uiTicksSinceFull, numActionMsgs, lastOk, lastFull >>

\* the popup is dismissed; its document is gone
ClosePopup ==
    /\ popup.open
    /\ popup' = NoPopup
    /\ lastOp' = NoOp("close")
    /\ UNCHANGED << limits, server, clock, uptime, fullDue, uiDue, timerState,
                    timeOffset, badgeSecondUpdatesEnabled, badge, port,
                    pendingGets, pendingPosts, numGets, numPosts,
                    numFullTicks, uiTicksSinceFull, numActionMsgs, msgsSent,
                    lastOk, lastFull >>

\* a click on a button that is displayed posts the button's message
Click(display, msg) ==
    /\ popup.open
    /\ display # "none"
    /\ msgsSent < limits.msgs
    /\ port' = Append(port, msg)
    /\ msgsSent' = msgsSent + 1
    /\ lastOp' = NoOp("click")
    /\ UNCHANGED << limits, server, clock, uptime, fullDue, uiDue, timerState,
                    timeOffset, badgeSecondUpdatesEnabled, badge, popup,
                    pendingGets, pendingPosts, numGets, numPosts,
                    numFullTicks, uiTicksSinceFull, numActionMsgs, lastOk,
                    lastFull >>

ClickStart       == Click(popup.btnStart, "start")
ClickSave        == Click(popup.btnSave, "save")
ClickDelete      == Click(popup.btnDelete, "delete")
ClickFullRefresh == Click("", "refetch")

\* ---- background.js: the port.onMessage listener, one action per branch

\* the "hello" branch doing a full refresh as well: tickUiUpdate() and
\* tickFullUpdate() up to the request it issues
ReceiveHelloRefreshes ==
    /\ port # << >>
    /\ Head(port) = "hello"
    /\ port' = Tail(port)
    /\ LET r == tickUiUpdate(timerState, timeOffset, clock,
                             badgeSecondUpdatesEnabled, badge, popup)
       IN  /\ badge' = r.badge
           /\ popup' = r.popup
    /\ pendingGets' = pendingGets \cup
                          { [ id |-> numGets + 1, sent |-> uptime,
                              reply |-> Null ] }
    /\ lastOp' = [ op |-> "hello",
                   badgeWrite |-> IF badgeSecondUpdatesEnabled
                                  THEN "parcel" ELSE "none",
                   uiUpdates |-> 1 ]
    /\ UNCHANGED << limits, server, clock, uptime, fullDue, uiDue, timerState,
                    timeOffset, badgeSecondUpdatesEnabled, pendingPosts,
                    numGets, numPosts, numFullTicks, uiTicksSinceFull,
                    numActionMsgs, msgsSent, lastOk, lastFull >>

\* msg === "hello": tickUiUpdate()
ReceiveHello ==
    /\ port # << >>
    /\ Head(port) = "hello"
    /\ port' = Tail(port)
    /\ LET r == tickUiUpdate(timerState, timeOffset, clock,
                             badgeSecondUpdatesEnabled, badge, popup)
       IN  /\ badge' = r.badge
           /\ popup' = r.popup
    /\ lastOp' = [ op |-> "hello",
                   badgeWrite |-> IF badgeSecondUpdatesEnabled
                                  THEN "parcel" ELSE "none",
                   uiUpdates |-> 1 ]
    /\ UNCHANGED << limits, server, clock, uptime, fullDue, uiDue, timerState,
                    timeOffset, badgeSecondUpdatesEnabled, pendingGets,
                    pendingPosts, numGets, numPosts, numFullTicks,
                    uiTicksSinceFull, numActionMsgs, msgsSent, lastOk,
                    lastFull >>

\* postTimerStateUpdate merging the update into BadgeTicker.timerState
\* itself instead of into a copy
ReceiveActionMergesInPlace(msg, update) ==
    /\ port # << >>
    /\ Head(port) = msg
    /\ port' = Tail(port)
    /\ timerState' = postTimerStateUpdate(update, timerState)
    /\ pendingPosts' = pendingPosts \cup
           { [ id |-> numPosts + 1, sent |-> uptime, reply |-> Null,
               body |-> postTimerStateUpdate(update, timerState) ] }
    /\ numPosts' = numPosts + 1
    /\ numActionMsgs' = numActionMsgs + 1
    /\ lastOp' = NoOp(msg)
    /\ UNCHANGED << limits, server, clock, uptime, fullDue, uiDue, timeOffset,
                    badgeSecondUpdatesEnabled, badge, popup, pendingGets,
                    numGets, numFullTicks, uiTicksSinceFull, msgsSent, lastOk,
                    lastFull >>

\* msg === "start" / "delete" / "save": postTimerStateUpdate(update), up to
\* the request it issues
ReceiveAction(msg, update) ==
    /\ port # << >>
    /\ Head(port) = msg
    /\ port' = Tail(port)
    /\ pendingPosts' = pendingPosts \cup
           { [ id |-> numPosts + 1, sent |-> uptime, reply |-> Null,
               body |-> postTimerStateUpdate(update, timerState) ] }
    /\ numPosts' = numPosts + 1
    /\ numActionMsgs' = numActionMsgs + 1
    /\ lastOp' = NoOp(msg)
    /\ UNCHANGED << limits, server, clock, uptime, fullDue, uiDue, timerState,
                    timeOffset, badgeSecondUpdatesEnabled, badge, popup,
                    pendingGets, numGets, numFullTicks, uiTicksSinceFull,
                    msgsSent, lastOk, lastFull >>

ReceiveStart  == ReceiveAction("start", StartUpdate)
ReceiveDelete == ReceiveAction("delete", DeleteUpdate)
ReceiveSave   == ReceiveAction("save", SaveUpdate)

\* any other message: no branch of the listener matches it
ReceiveOther ==
    /\ port # << >>
    /\ Head(port) \notin { "hello", "start", "delete", "save" }
    /\ port' = Tail(port)
    /\ lastOp' = NoOp("other")
    /\ UNCHANGED << limits, server, clock, uptime, fullDue, uiDue, timerState,
                    timeOffset, badgeSecondUpdatesEnabled, badge, popup,
                    pendingGets, pendingPosts, numGets, numPosts,
                    numFullTicks, uiTicksSinceFull, numActionMsgs, msgsSent,
                    lastOk, lastFull >>

\* ---- the server

\* the server answers a GET with the timer state it holds
ServerHandlesGet ==
    \E req \in pendingGets :
        /\ server # Null
        /\ req.reply = Null
        /\ pendingGets' = (pendingGets \ { req })
                              \cup { [ req EXCEPT !.reply = server ] }
        /\ lastOp' = NoOp("serverGet")
        /\ UNCHANGED << limits, server, clock, uptime, fullDue, uiDue,
                        timerState, timeOffset, badgeSecondUpdatesEnabled,
                        badge, popup, port, pendingPosts, numGets, numPosts,
                        numFullTicks, uiTicksSinceFull, numActionMsgs,
                        msgsSent, lastOk, lastFull >>

\* the server applies a POST and answers with the timer state it then holds
ServerHandlesPost ==
    \E req \in pendingPosts, data \in ResponseStates :
        /\ server # Null
        /\ req.reply = Null
        /\ server' = << data >>
        /\ pendingPosts' = (pendingPosts \ { req })
                               \cup { [ req EXCEPT !.reply = << data >> ] }
        /\ lastOp' = NoOp("serverPost")
        /\ UNCHANGED << limits, clock, uptime, fullDue, uiDue, timerState,
                        timeOffset, badgeSecondUpdatesEnabled, badge, popup,
                        port, pendingGets, numGets, numPosts, numFullTicks,
                        uiTicksSinceFull, numActionMsgs, msgsSent, lastOk,
                        lastFull >>

\* the timer state a completing request is answered with: the server's
\* answer to it, and any state where the server's state is left open
Answers(req, data) ==
    IF server = Null THEN TRUE ELSE req.reply = << data >>

\* ---- the promise chains that run when a request completes

\* tickFullUpdate, GET resolved: handleTimerState(timerState, updateParcel),
\* badgeSecondUpdatesEnabled = true, then applyBadgeConfig(updateParcel)
GetResolved ==
    \E req \in pendingGets, data \in ResponseStates :
        Answers(req, data) /\
        LET cache        == handleTimerState(data, clock)
            updateParcel == setUpdateObjTexts(NewUpdateParcel,
                                cache.timerState, cache.timeOffset, clock)
        IN  /\ pendingGets' = pendingGets \ { req }
            /\ timerState' = cache.timerState
            /\ timeOffset' = cache.timeOffset
            /\ badgeSecondUpdatesEnabled' = TRUE
            /\ badge' = applyBadgeConfig(updateParcel)
            /\ lastOk' = << [ data |-> data, at |-> clock ] >>
            /\ lastFull' = "ok"
            /\ lastOp' = [ op |-> "getOk", badgeWrite |-> "parcel",
                           uiUpdates |-> 0 ]
            /\ UNCHANGED << limits, server, clock, uptime, fullDue, uiDue,
                            popup, port, pendingPosts, numGets, numPosts,
                            numFullTicks, uiTicksSinceFull, numActionMsgs,
                            msgsSent >>

\* the catch branch of tickFullUpdate without
\* this.badgeSecondUpdatesEnabled = false
GetRejectedKeepsFlag ==
    \E req \in pendingGets :
        /\ pendingGets' = pendingGets \ { req }
        /\ badge' = applyBadgeConfig(ErrorParcel)
        /\ lastFull' = "fail"
        /\ lastOp' = [ op |-> "getFail", badgeWrite |-> "error",
                       uiUpdates |-> 0 ]
        /\ UNCHANGED << limits, server, clock, uptime, fullDue, uiDue,
                        timerState, timeOffset, badgeSecondUpdatesEnabled,
                        popup, port, pendingPosts, numGets, numPosts,
                        numFullTicks, uiTicksSinceFull, numActionMsgs,
                        msgsSent, lastOk >>

\* the catch branch of tickFullUpdate trying the request again
GetRejectedRetry ==
    \E req \in pendingGets :
        /\ pendingGets' = (pendingGets \ { req }) \cup
                              { [ id |-> numGets + 1, sent |-> uptime,
                              reply |-> Null ] }
        /\ numGets' = numGets + 1
        /\ badgeSecondUpdatesEnabled' = FALSE
        /\ badge' = applyBadgeConfig(ErrorParcel)
        /\ lastFull' = "fail"
        /\ lastOp' = [ op |-> "getFail", badgeWrite |-> "error",
                       uiUpdates |-> 0 ]
        /\ UNCHANGED << limits, server, clock, uptime, fullDue, uiDue,
                        timerState, timeOffset, popup, port, pendingPosts,
                        numPosts, numFullTicks, uiTicksSinceFull,
                        numActionMsgs, msgsSent, lastOk >>

\* tickFullUpdate, GET rejected: the error parcel,
\* badgeSecondUpdatesEnabled = false, then applyBadgeConfig(updateParcel)
GetRejected ==
    \E req \in pendingGets :
        /\ pendingGets' = pendingGets \ { req }
        /\ badgeSecondUpdatesEnabled' = FALSE
        /\ badge' = applyBadgeConfig(ErrorParcel)
        /\ lastFull' = "fail"
        /\ lastOp' = [ op |-> "getFail", badgeWrite |-> "error",
                       uiUpdates |-> 0 ]
        /\ UNCHANGED << limits, server, clock, uptime, fullDue, uiDue,
                        timerState, timeOffset, popup, port, pendingPosts,
                        numGets, numPosts, numFullTicks, uiTicksSinceFull,
                        numActionMsgs, msgsSent, lastOk >>

\* a user action's POST resolved: handleTimerState(newState), tickUiUpdate()
PostResolved ==
    \E req \in pendingPosts, data \in ResponseStates :
        Answers(req, data) /\
        LET cache == handleTimerState(data, clock)
            r     == tickUiUpdate(cache.timerState, cache.timeOffset, clock,
                                  badgeSecondUpdatesEnabled, badge, popup)
        IN  /\ pendingPosts' = pendingPosts \ { req }
            /\ timerState' = cache.timerState
            /\ timeOffset' = cache.timeOffset
            /\ badge' = r.badge
            /\ popup' = r.popup
            /\ lastOk' = << [ data |-> data, at |-> clock ] >>
            /\ lastOp' = [ op |-> "postOk",
                           badgeWrite |-> IF badgeSecondUpdatesEnabled
                                          THEN "parcel" ELSE "none",
                           uiUpdates |-> 1 ]
            /\ UNCHANGED << limits, server, clock, uptime, fullDue, uiDue,
                            badgeSecondUpdatesEnabled, port, pendingGets,
                            numGets, numPosts, numFullTicks, uiTicksSinceFull,
                            numActionMsgs, msgsSent, lastFull >>

\* the POST chain with the display step before the catch,
\* .then(handle).then(tickUiUpdate).catch(log): a rejection skips it
PostRejectedSkipsUiUpdate ==
    \E req \in pendingPosts :
        /\ pendingPosts' = pendingPosts \ { req }
        /\ lastOp' = NoOp("postFail")
        /\ UNCHANGED << limits, server, clock, uptime, fullDue, uiDue,
                        timerState, timeOffset, badgeSecondUpdatesEnabled,
                        badge, popup, port, pendingGets, numGets, numPosts,
                        numFullTicks, uiTicksSinceFull, numActionMsgs,
                        msgsSent, lastOk, lastFull >>

\* a user action's POST rejected: console.error, tickUiUpdate()
PostRejected ==
    \E req \in pendingPosts :
        LET r == tickUiUpdate(timerState, timeOffset, clock,
                              badgeSecondUpdatesEnabled, badge, popup)
        IN  /\ pendingPosts' = pendingPosts \ { req }
            /\ badge' = r.badge
            /\ popup' = r.popup
            /\ lastOp' = [ op |-> "postFail",
                           badgeWrite |-> IF badgeSecondUpdatesEnabled
                                          THEN "parcel" ELSE "none",
                           uiUpdates |-> 1 ]
            /\ UNCHANGED << limits, server, clock, uptime, fullDue, uiDue,
                            timerState, timeOffset, badgeSecondUpdatesEnabled,
                            port, pendingGets, numGets, numPosts,
                            numFullTicks, uiTicksSinceFull, numActionMsgs,
                            msgsSent, lastOk, lastFull >>

Next ==
    \/ AdvanceClock
    \/ FullTimerFire
    \/ UiTimerFire
    \/ OpenPopup
    \/ ClosePopup
    \/ ClickStart
    \/ ClickSave
    \/ ClickDelete
    \/ ClickFullRefresh
    \/ ReceiveHello
    \/ ReceiveStart
    \/ ReceiveDelete
    \/ ReceiveSave
    \/ ReceiveOther
    \/ GetResolved
    \/ GetRejected
    \/ PostResolved
    \/ PostRejected

Spec == Init /\ [][Next]_vars

\* ---- the program with a server that holds the timer and no other client

\* a user action around the immediate full refresh or around the first
\* firing of the 60 s interval
ServerScenarios ==
    { [ uptime |-> (MaxTime \div 2) + 1,   msgs |-> 1 ],
      [ uptime |-> 1,                      msgs |-> 2 ] }

InitServer ==
    /\ Booted
    /\ limits \in ServerScenarios
    /\ server \in { << state >> : state \in ResponseStates }

NextServer ==
    \/ Next
    \/ ServerHandlesGet
    \/ ServerHandlesPost

SpecServer == InitServer /\ [][NextServer]_vars

\* ---- the clock face over a range of run times

\* the run times, in seconds, the clock face is computed for
FaceInputs ==
    (0 .. MaxFaceSeconds) \cup
    { 3599, 3600, 3660, 3661, 35999, 36000, 86399, 86400, 359999, 360000 }

\* the program right after the immediate full refresh has resolved with a
\* timer that has been running for one of the run times
InitClockFace ==
    \E secs \in FaceInputs :
        LET data         == StartedState(ServerNow, secs, << TaskA >>)
            cache        == handleTimerState(data, clock)
            updateParcel == setUpdateObjTexts(NewUpdateParcel,
                                cache.timerState, cache.timeOffset, clock)
        IN  /\ clock \in LocalClockBases
            /\ uptime = 0
            /\ fullDue = FullUpdateIntervalSecs
            /\ uiDue = UiUpdateIntervalSecs
            /\ timerState = cache.timerState
            /\ timeOffset = cache.timeOffset
            /\ badgeSecondUpdatesEnabled = TRUE
            /\ badge = applyBadgeConfig(updateParcel)
            /\ popup = NoPopup
            /\ port = << >>
            /\ pendingGets = { }
            /\ pendingPosts = { }
            /\ numGets = 1
            /\ numPosts = 0
            /\ numFullTicks = 0
            /\ uiTicksSinceFull = 0
            /\ numActionMsgs = 0
            /\ msgsSent = 0
            /\ lastOk = << [ data |-> data, at |-> clock ] >>
            /\ lastFull = "ok"
            /\ lastOp = [ op |-> "getOk", badgeWrite |-> "parcel",
                          uiUpdates |-> 0 ]
            /\ limits = [ uptime |-> MaxLatency, msgs |-> 0 ]
            /\ server = Null

\* the seconds pass and the 1 s interval redraws the clock face
NextClockFace ==
    \/ AdvanceClock
    \/ UiTimerFire

SpecClockFace == InitClockFace /\ [][NextClockFace]_vars

TypeOK ==
    /\ uptime \in 0 .. MaxTime
    /\ badgeSecondUpdatesEnabled \in BOOLEAN
    /\ msgsSent \in 0 .. MaxMsgs
    /\ Len(port) <= MaxMsgs

\* ------------------------------------------------------------ properties

\* a step in which the listener receives the message msg
Receives(msg) ==
    /\ port # << >>
    /\ Head(port) = msg
    /\ port' = Tail(port)

\* the requests a step adds to the POSTs in flight
NewPosts == pendingPosts' \ pendingPosts

\* C1: every "start", "save" or "delete" message the background process
\* receives issues exactly one POST, which carries started=true for "start",
\* finish=true for "save" and started=false for "delete"; no POST in flight
\* is replaced or dropped by it, so two messages in a row issue two POSTs.
C1_OnePostPerActionMessage ==
    [][ \A msg \in { "start", "save", "delete" } :
            Receives(msg) =>
                /\ Cardinality(NewPosts) = 1
                /\ pendingPosts \subseteq pendingPosts'
                /\ numPosts' = numPosts + 1
                /\ pendingGets' = pendingGets
                /\ \A req \in NewPosts :
                    /\ msg = "start"  => req.body.started = TRUE
                    /\ msg = "save"   => /\ "finish" \in DOMAIN req.body
                                         /\ req.body.finish = TRUE
                    /\ msg = "delete" => req.body.started = FALSE
      ]_vars

\* two POSTs in flight, the second issued by a "save" right after a "start"
C1_Witness ==
    /\ lastOp.op = "save"
    /\ numPosts = 2
    /\ Cardinality(pendingPosts) = 2
    /\ \E req \in pendingPosts : req.id = 1 /\ req.body.started = TRUE

\* C2: the body of the POST a message issues is the cached timer state at the
\* moment the message is handled overridden by the update: the update's
\* fields have the update's values, and started_at, active_task,
\* seconds_active, now (and for "save" also started) have the cached values.
C2_BodyIsCacheOverriddenByUpdate ==
    [][ \A msg \in { "start", "save", "delete" } :
            Receives(msg) =>
                \A req \in NewPosts :
                    /\ req.body.started_at = timerState.started_at
                    /\ req.body.active_task = timerState.active_task
                    /\ req.body.seconds_active = timerState.seconds_active
                    /\ req.body.now = timerState.now
                    /\ req.body.started =
                          CASE msg = "start"  -> TRUE
                            [] msg = "delete" -> FALSE
                            [] msg = "save"   -> timerState.started
                    /\ DOMAIN req.body =
                          { "started", "started_at", "active_task",
                            "seconds_active", "now" }
                          \cup (IF msg = "save" THEN { "finish" } ELSE { })
                    /\ msg = "save" => req.body.finish = TRUE
      ]_vars

\* a "start" posted over a cached state that says stopped, with a task
C2_Witness ==
    /\ lastOp.op = "start"
    /\ ~timerState.started
    /\ timerState.active_task # Null
    /\ \E req \in pendingPosts :
          /\ req.id = numPosts
          /\ req.body.started = TRUE
          /\ req.body.active_task = timerState.active_task

\* C3: once a successful response has been handled, the cached timerState is
\* the data of the response handled last and timeOffset is that response's
\* 'now' minus the local clock at the moment it was handled.
C3_CacheIsLastSuccessfulResponse ==
    /\ lastOk # Null =>
          /\ timerState = lastOk[1].data
          /\ timeOffset = lastOk[1].data.now - lastOk[1].at
    /\ lastOp.op \in { "getOk", "postOk" } =>
          /\ lastOk # Null
          /\ lastOk[1].at = clock

\* a POST's response handled after a GET's, with different data
C3_Witness ==
    /\ lastOp.op = "postOk"
    /\ lastFull = "ok"
    /\ timerState.started
    /\ uptime > 0

\* C4: a full refresh is issued at initialisation and then by every firing of
\* the 60 s interval, which comes once per 60 firings of the 1 s interval;
\* the 1 s interval fires (and runs tickUiUpdate) in every second.  The 60 s
\* interval fires before the 1 s interval of the same instant, so 59 display
\* ticks precede its first firing and exactly 60 lie between two firings.
C4_RefreshSchedule ==
    [][ /\ numFullTicks = 0 => numGets = 1
        /\ numFullTicks' = numFullTicks + 1 =>
              /\ uptime = 60 * (numFullTicks + 1)
              /\ numGets' = numGets + 1
              /\ Cardinality(pendingGets') = Cardinality(pendingGets) + 1
              /\ uiTicksSinceFull = IF numFullTicks = 0 THEN 59 ELSE 60
        /\ numGets' # numGets => numFullTicks' = numFullTicks + 1
        /\ (uptime' = uptime + 1 /\ uptime > 0) => uiDue = uptime + 1
        /\ uiDue' # uiDue =>
              /\ uiDue = uptime
              /\ uiDue' = uptime + 1
              /\ uiTicksSinceFull' = uiTicksSinceFull + 1
              /\ lastOp'.uiUpdates = 1
      ]_vars

\* the 60 s interval has just fired for the second time
C4_Witness ==
    /\ lastOp.op = "fullTick"
    /\ numFullTicks = 2
    /\ numGets = 3

\* the badge of the error state, as the claim spells it
ErrorBadge ==
    [ text |-> "!", color |-> "#e74c3c",
      title |-> "Timetrakt - Communication error" ]

\* C5: from a failed full refresh until a later full refresh succeeds the
\* badge is text "!", colour #e74c3c, title "Timetrakt - Communication
\* error", whatever ticks, "hello" messages and user actions come in between;
\* a full refresh that succeeds writes the badge computed from the fetched
\* state.
C5_ErrorBadgeUntilRefreshSucceeds ==
    /\ lastFull = "fail" => badge = ErrorBadge
    /\ lastOp.op = "getFail" => lastFull = "fail"
    /\ lastOp.op = "getOk" =>
          /\ lastFull = "ok"
          /\ badge # ErrorBadge
          /\ badge = applyBadgeConfig(
                        setUpdateObjTexts(NewUpdateParcel, lastOk[1].data,
                                          lastOk[1].data.now - clock, clock))

\* the error badge kept while a user action's response changes the cache
C5_Witness ==
    /\ lastFull = "fail"
    /\ lastOp.op = "postOk"
    /\ timerState.started
    /\ badge = ErrorBadge

\* C6: no request is retried: the GETs issued are the initial one plus one
\* per firing of the 60 s interval, and the POSTs issued are one per "start",
\* "save" or "delete" message received, however many requests failed.
C6_NoRetry ==
    /\ numGets = 1 + numFullTicks
    /\ numPosts = numActionMsgs
    /\ Cardinality(pendingGets) <= numGets
    /\ Cardinality(pendingPosts) <= numPosts

\* a POST has just failed after the initial GET failed and the 60 s interval
\* fired once
C6_Witness ==
    /\ lastOp.op = "postFail"
    /\ lastFull = "fail"
    /\ numFullTicks = 1
    /\ numGets = 2
    /\ numPosts = 1

\* the title of a badge written from the cached state, as the claim has it
C7_TitleClaimed ==
    LET face == getTimerClockFaceText(timerState, timeOffset, clock)
    IN  "Timetrakt - "
        \o (IF timerState.active_task # Null
            THEN timerState.active_task[1].name ELSE "No active task")
        \o "\r\n" \o face.full

\* C7 as claimed: a badge written from a non-error parcel shows the cached
\* state: text "" and title "Timetrakt - Stopped" when the timer is not
\* started; else the text is the short clock face and the title is
\* "Timetrakt - ", the task's name (or "No active task"), a line break and
\* the full clock face.
C7_BadgeShowsCache_Claimed ==
    lastOp.badgeWrite = "parcel" =>
        IF ~timerState.started
        THEN /\ badge.text = ""
             /\ badge.title = "Timetrakt - Stopped"
        ELSE /\ badge.text =
                  getTimerClockFaceText(timerState, timeOffset, clock).short
             /\ badge.title = C7_TitleClaimed

\* C7 as amended: the same, except that an active task whose name is the
\* empty string contributes neither a name nor a line break to the title.
C7_BadgeShowsCache ==
    lastOp.badgeWrite = "parcel" =>
        LET face == getTimerClockFaceText(timerState, timeOffset, clock)
            emptyName == /\ timerState.active_task # Null
                         /\ timerState.active_task[1].name = ""
        IN  IF ~timerState.started
            THEN /\ badge.text = ""
                 /\ badge.title = "Timetrakt - Stopped"
            ELSE /\ badge.text = face.short
                 /\ badge.title = IF emptyName
                                  THEN "Timetrakt - " \o face.full
                                  ELSE C7_TitleClaimed

\* the 1 s tick has just written the badge of a started timer whose task has
\* an empty name
C7_Witness ==
    /\ lastOp.op = "uiTick"
    /\ lastOp.badgeWrite = "parcel"
    /\ timerState.started
    /\ timerState.active_task = << TaskNoName >>
    /\ badge.text # ""

Visible(display) == display # "none"

\* C8: after a UI update with a popup view open the popup shows the cached
\* state: Start is visible iff the timer is not started, Delete iff it is
\* started, Save iff it is started and has an active task; the face is
\* "Stopped" or the full clock face; task and project are the active task's
\* names, or empty without an active task.
C8_PopupShowsCache ==
    (lastOp.uiUpdates = 1 /\ popup.open) =>
        LET face    == getTimerClockFaceText(timerState, timeOffset, clock)
            hasTask == timerState.active_task # Null
        IN  /\ Visible(popup.btnStart) <=> ~timerState.started
            /\ Visible(popup.btnDelete) <=> timerState.started
            /\ Visible(popup.btnSave) <=> (timerState.started /\ hasTask)
            /\ popup.face = IF timerState.started THEN face.full
                            ELSE "Stopped"
            /\ popup.task = IF hasTask THEN timerState.active_task[1].name
                            ELSE ""
            /\ popup.project =
                  IF hasTask THEN timerState.active_task[1].project.name
                  ELSE ""

\* the open popup redrawn for a started timer without a task
C8_Witness ==
    /\ lastOp.uiUpdates = 1
    /\ popup.open
    /\ timerState.started
    /\ timerState.active_task = Null
    /\ popup.btnDelete = "flex"

\* a number below 100 written with exactly two decimal digits
TwoDigits(n) == Digits[(n \div 10) + 1] \o Digits[(n % 10) + 1]

\* C9: for a run time of T >= 0 whole seconds the clock face has minutes and
\* seconds in 0..59 with 3600*H + 60*MM + SS = T; the full text is H:MM:SS
\* with MM and SS in two digits and H unpadded, the short text is the full
\* text without ":SS" ("1:01" for one hour and one minute).
C9_ClockFace ==
    LET T     == totalSecondsActive(timerState, timeOffset, clock)
        parts == ClockFaceParts(T)
        face  == getTimerClockFaceText(timerState, timeOffset, clock)
    IN  (timerState.started /\ T >= 0) =>
            /\ parts.hours >= 0
            /\ parts.minutes \in 0 .. 59
            /\ parts.seconds \in 0 .. 59
            /\ (3600 * parts.hours) + (60 * parts.minutes) + parts.seconds = T
            /\ face.full = NumberToString(T \div 3600) \o ":"
                           \o TwoDigits((T \div 60) % 60) \o ":"
                           \o TwoDigits(T % 60)
            /\ face.full = face.short \o ":" \o TwoDigits(T % 60)
            /\ Len(face.short) = Len(NumberToString(T \div 3600)) + 3
            /\ T \div 60 = 61 => face.short = "1:01"
            /\ (lastOp.op = "uiTick" /\ badgeSecondUpdatesEnabled) =>
                  badge.text = face.short

\* the 1 s tick has drawn the face of 1 hour, 1 minute and 1 second
C9_Witness ==
    /\ lastOp.op = "uiTick"
    /\ timerState.started
    /\ totalSecondsActive(timerState, timeOffset, clock) = 3661
    /\ badge.text = "1:01"

\* the run time of the claim in time units: the server's 'now' of the last
\* response minus started_at, plus the local time since it was handled
C10_RunTimeUnits(ok, clk) ==
    (ok.data.now - ok.data.started_at[1]) + (clk - ok.at)

\* C10 as claimed: the elapsed time shown for a started timer equals that
\* run time.
C10_ElapsedIsCorrected_Claimed ==
    (timerState.started /\ lastOk # Null) =>
        totalSecondsActive(timerState, timeOffset, clock) * TimeUnitsPerSecond
            = C10_RunTimeUnits(lastOk[1], clock)

\* T is x time units rounded to the nearest whole second, halves going up
IsRounded(T, x) ==
    /\ (2 * T * TimeUnitsPerSecond) - TimeUnitsPerSecond <= 2 * x
    /\ 2 * x < (2 * T * TimeUnitsPerSecond) + TimeUnitsPerSecond

\* C10 as amended: the elapsed time shown for a started timer is that run
\* time rounded to the nearest whole second, whatever the local clock reads,
\* and it grows by one with every second that passes between responses.
C10_ElapsedIsCorrected ==
    [][ /\ (timerState.started /\ lastOk # Null) =>
              IsRounded(totalSecondsActive(timerState, timeOffset, clock),
                        C10_RunTimeUnits(lastOk[1], clock))
        /\ (timerState'.started /\ lastOk' # Null) =>
              IsRounded(totalSecondsActive(timerState', timeOffset', clock'),
                        C10_RunTimeUnits(lastOk'[1], clock'))
        /\ (timerState.started /\ clock' = clock + TimeUnitsPerSecond) =>
              totalSecondsActive(timerState', timeOffset', clock')
                = totalSecondsActive(timerState, timeOffset, clock) + 1
      ]_vars

\* two seconds after a response with a fractional 'now' started the timer
C10_Witness ==
    /\ lastOp.op = "advance"
    /\ timerState.started
    /\ lastOk # Null
    /\ lastOk[1].data.now = ServerNowFrac
    /\ clock - lastOk[1].at >= 2 * TimeUnitsPerSecond

\* C11: receiving the message "refetch", which the popup's full-refresh
\* button posts, makes the background process do a full refresh: it issues a
\* GET of the timer state (whose completion then updates the badge).
C11_RefetchDoesFullRefresh ==
    [][ Receives("refetch") =>
            /\ numGets' = numGets + 1
            /\ Cardinality(pendingGets') = Cardinality(pendingGets) + 1
      ]_vars

\* the cache: BadgeTicker.timerState and BadgeTicker.timeOffset
Cache == << timerState, timeOffset >>

\* what C12 says of every step but the failed POST: the cache changes only
\* in a step that handles a successful response; receiving "start", "save"
\* or "delete" and a failed GET leave it unchanged
C12_CacheFrame ==
    /\ Cache' # Cache => lastOp'.op \in { "getOk", "postOk" }
    /\ \A msg \in { "start", "save", "delete" } :
          Receives(msg) => /\ Cache' = Cache
                           /\ Cardinality(NewPosts) = 1
    /\ lastOp'.op = "getFail" => Cache' = Cache

\* C12 as claimed: the cache changes only when a successful response is
\* handled (not when a POST is issued, not when a GET or POST fails), and a
\* failed POST also leaves the badge and badgeSecondUpdatesEnabled unchanged.
C12_CacheChangesOnlyOnSuccess_Claimed ==
    [][ /\ C12_CacheFrame
        /\ lastOp'.op = "postFail" =>
              /\ Cache' = Cache
              /\ badge' = badge
              /\ badgeSecondUpdatesEnabled' = badgeSecondUpdatesEnabled
      ]_vars

\* C12 as amended: the same, except that a failed POST leaves the badge
\* unchanged only while badgeSecondUpdatesEnabled is false; while it is true
\* the tickUiUpdate that follows redraws the badge from the unchanged cache
\* at the current time.
C12_CacheChangesOnlyOnSuccess ==
    [][ /\ C12_CacheFrame
        /\ lastOp'.op = "postFail" =>
              /\ Cache' = Cache
              /\ badgeSecondUpdatesEnabled' = badgeSecondUpdatesEnabled
              /\ ~badgeSecondUpdatesEnabled => badge' = badge
              /\ badgeSecondUpdatesEnabled =>
                    badge' = applyBadgeConfig(
                                setUpdateObjTexts(NewUpdateParcel, timerState,
                                                  timeOffset, clock))
      ]_vars

\* a POST has failed over a started timer before the 1 s tick of the second:
\* the badge has been redrawn, the cache is the last successful response
C12_Witness ==
    /\ lastOp.op = "postFail"
    /\ badgeSecondUpdatesEnabled
    /\ timerState.started
    /\ uiDue = uptime
    /\ lastOk # Null
    /\ timerState = lastOk[1].data

\* the step handles the GET's response after the response of a POST that
\* was issued and answered while the GET was in flight
GetHandledAfterPost ==
    /\ lastOp'.op = "getOk"
    /\ lastOk # Null

\* the step handles the response of a POST that was issued at least a second
\* before the GET's response was handled
PostHandledAfterGet ==
    /\ lastOp'.op = "postOk"
    /\ lastFull = "ok"
    /\ \A req \in pendingPosts :
          (uptime - req.sent) * TimeUnitsPerSecond > clock - lastOk[1].at

\* C13: when the immediate full refresh's GET and the POST of a user action
\* were in flight at the same time and no other request was issued, the
\* step that handles the second of the two responses leaves the cached
\* timerState equal to the timer state the server holds, in whichever order
\* the server handled the two and in whichever order the responses came.
C13_CacheIsServerStateAfterRace ==
    [][ ( /\ numGets' = 1
          /\ numPosts' = 1
          /\ pendingGets' = { }
          /\ pendingPosts' = { }
          /\ GetHandledAfterPost \/ PostHandledAfterGet )
        => timerState' = server'[1]
      ]_vars

\* the steps that call tickUiUpdate: the 1 s tick, "hello", and the end of a
\* POST's promise chain
IsUiUpdateStep == lastOp'.op \in { "uiTick", "hello", "postOk", "postFail" }

\* C14: badgeSecondUpdatesEnabled is false until the first full refresh
\* succeeds and from then on true exactly when the full refresh that
\* completed last succeeded; the responses of POSTs do not change it; so
\* tickUiUpdate leaves the badge untouched before the first successful fetch
\* and changes it only while the flag is true.
C14_FlagFollowsLastFullRefresh ==
    [][ /\ badgeSecondUpdatesEnabled <=> (lastFull = "ok")
        /\ badgeSecondUpdatesEnabled' <=> (lastFull' = "ok")
        /\ lastFull = "none" => badge = UnsetBadge
        /\ lastOp'.op \in { "postOk", "postFail" } =>
              badgeSecondUpdatesEnabled' = badgeSecondUpdatesEnabled
        /\ (IsUiUpdateStep /\ badge' # badge) =>
              /\ badgeSecondUpdatesEnabled
              /\ badgeSecondUpdatesEnabled'
      ]_vars

\* the flag is off again: the first refresh succeeded, the one issued by the
\* 60 s interval failed, and the 1 s tick has left the error badge alone
C14_Witness ==
    /\ lastOp.op = "uiTick"
    /\ numFullTicks = 1
    /\ lastFull = "fail"
    /\ lastOk # Null
    /\ lastOk[1].at < clock - (MaxLatency * TimeUnitsPerSecond)
    /\ ~badgeSecondUpdatesEnabled
    /\ badge = ErrorBadge

\* the parcel a display step fills from the cache a step leaves
ParcelAfterStep ==
    setUpdateObjTexts(NewUpdateParcel, timerState', timeOffset', clock')

\* C15: every request that completes is followed by its display step,
\* resolved or rejected: a completed POST by one tickUiUpdate (the popup is
\* redrawn, and the badge if badgeSecondUpdatesEnabled), a completed GET by
\* one applyBadgeConfig (of the fetched state, or of the error parcel).
C15_CompletionIsDisplayed ==
    [][ /\ (pendingPosts' # pendingPosts /\ pendingPosts' \subseteq pendingPosts)
              => /\ lastOp'.op \in { "postOk", "postFail" }
                 /\ lastOp'.uiUpdates = 1
                 /\ popup' = updatePopupUi(ParcelAfterStep, timerState', popup)
                 /\ badge' = IF badgeSecondUpdatesEnabled
                             THEN applyBadgeConfig(ParcelAfterStep)
                             ELSE badge
        /\ (pendingGets' # pendingGets /\ pendingGets' \subseteq pendingGets)
              => /\ lastOp'.op \in { "getOk", "getFail" }
                 /\ lastOp'.uiUpdates = 0
                 /\ lastOp'.badgeWrite # "none"
                 /\ popup' = popup
                 /\ badge' = IF lastOp'.op = "getOk"
                             THEN applyBadgeConfig(ParcelAfterStep)
                             ELSE ErrorBadge
      ]_vars

\* a POST has failed with the popup open over a started timer, before the
\* 1 s tick of the second: the popup shows the face of the current second
C15_Witness ==
    /\ lastOp.op = "postFail"
    /\ popup.open
    /\ timerState.started
    /\ uiDue = uptime
    /\ uptime > 0
    /\ popup.face =
          getTimerClockFaceText(timerState, timeOffset, clock).full

\* C16: the 1 s display tick and the "hello" message only redraw: the step
\* issues no request and leaves timerState, timeOffset and
\* badgeSecondUpdatesEnabled unchanged.
C16_UiUpdateOnlyRedraws ==
    [][ (uiDue' # uiDue \/ Receives("hello")) =>
            /\ lastOp'.op \in { "uiTick", "hello" }
            /\ pendingGets' = pendingGets
            /\ pendingPosts' = pendingPosts
            /\ numGets' = numGets
            /\ numPosts' = numPosts
            /\ timerState' = timerState
            /\ timeOffset' = timeOffset
            /\ badgeSecondUpdatesEnabled' = badgeSecondUpdatesEnabled
      ]_vars

\* "hello" has just redrawn the popup while the initial GET is in flight
C16_Witness ==
    /\ lastOp.op = "hello"
    /\ popup.open
    /\ popup.face = "Stopped"
    /\ popup.btnStart = "flex"
    /\ pendingGets # { }
    /\ numGets = 1

====
